---- MODULE Spec2Model ----
(***************************************************************************)
(* A model of epregistry (src/src/epregistry/epregistry.py): the process-  *)
(* wide entry point cache, the per-group EntryPointRegistry views and the  *)
(* module-level query functions.                                           *)
(*                                                                         *)
(* Conventions.                                                            *)
(*  - A Python str is a sequence of one-character strings.                 *)
(*  - An Optional value is a sequence of length 0 (None) or 1.             *)
(*  - A Python dict is an insertion-ordered sequence of [k, v] records.    *)
(*  - The outer cache dicts are mutable objects: they live in `heap` and   *)
(*    are named by their index; 0 is None.  The inner per-group dicts are  *)
(*    never written after they are created, so they are kept by value.     *)
(***************************************************************************)
EXTENDS Naturals, Sequences, FiniteSets

VARIABLES
  env,                 \* the host environment: what entry_points() enumerates, in order
  _entry_point_cache,  \* the module global: 0 (None) or the id of a dict in heap
  memo,                \* the functools.cache slot of _initialize_cache: 0 or an id
  heap,                \* the outer dict objects created so far
  registries,          \* the EntryPointRegistry objects constructed so far
  result,              \* the value (or exception) the last call handed back, if pending
  scans,               \* history: how many times entry_points() was enumerated
  snapshot,            \* history: the environment at the first enumeration
  held,                \* history: the ids _get_cache has returned
  pc,                  \* per thread: the statement the thread is at
  loc                  \* per thread: its frame (self, locals)

vars == <<env, _entry_point_cache, memo, heap, registries, result, scans, snapshot, held, pc, loc>>

(***************************************************************************)
(* Bounds and input sets                                                   *)
(***************************************************************************)
MaxEnv == 2
MaxRegistries == 2

None == <<>>
Some(x) == <<x>>

ep1 == [group |-> <<"a", "b">>, name |-> <<"x">>, module |-> "m1", attr |-> "f",
        dist |-> Some([name |-> <<"P", "k">>, version |-> "1.0"])]
ep2 == [group |-> <<"a", "b">>, name |-> <<"x">>, module |-> "m2", attr |-> "g",
        dist |-> None]
ep3 == [group |-> <<"C", "b">>, name |-> <<"K", "y">>, module |-> "m3", attr |-> "h",
        dist |-> Some([name |-> <<"k", "x">>, version |-> "2.0"])]

EPUniverse == {ep1, ep2, ep3}
GroupInputs == {<<"a", "b">>, <<"C", "b">>, <<"z">>}
NameInputs == {<<"x">>, <<"K", "y">>, <<"n">>}
PatternInputs == {None, Some(<<>>), Some(<<"A", "?">>), Some(<<"*", "X">>)}
QueryInputs == {<<>>, <<"K">>, <<"c">>, <<"X">>}
Threads == {"t1", "t2"}

Range(s) == {s[i] : i \in 1..Len(s)}

\* every enumeration order of at most MaxEnv distinct installed entry points
Envs == {e \in UNION {[1..n -> EPUniverse] : n \in 0..MaxEnv} :
           \A i, j \in 1..Len(e) : i # j => e[i] # e[j]}

(***************************************************************************)
(* str and dict primitives                                                 *)
(***************************************************************************)
LowerChar(c) ==
  CASE c = "A" -> "a" [] c = "B" -> "b" [] c = "C" -> "c" [] c = "K" -> "k"
    [] c = "P" -> "p" [] c = "X" -> "x" [] c = "Y" -> "y" [] OTHER -> c

lower(s) == [i \in 1..Len(s) |-> LowerChar(s[i])]

\* `sub in text` on str
StrIn(sub, text) ==
  \E i \in 0..Len(text) :
     /\ i + Len(sub) <= Len(text)
     /\ SubSeq(text, i + 1, i + Len(sub)) = sub

\* repr() of a str without quotes or escapes
Quote(s) == <<"'">> \o s \o <<"'">>

DictHas(d, k) == \E i \in 1..Len(d) : d[i].k = k
DictGet(d, k) == d[CHOOSE i \in 1..Len(d) : d[i].k = k].v
DictSet(d, k, v) ==
  IF DictHas(d, k)
    THEN [i \in 1..Len(d) |-> IF d[i].k = k THEN [k |-> k, v |-> v] ELSE d[i]]
    ELSE Append(d, [k |-> k, v |-> v])
DictKeys(d) == [i \in 1..Len(d) |-> d[i].k]
DictValues(d) == [i \in 1..Len(d) |-> d[i].v]

\* the (group, name, entry point) triples a nested dict holds
Entries(c) ==
  UNION {{[group |-> c[i].k, name |-> c[i].v[j].k, ep |-> c[i].v[j].v] :
            j \in 1..Len(c[i].v)} : i \in 1..Len(c)}

(***************************************************************************)
(* The cache: _initialize_cache and EntryPointRegistry._get_cache          *)
(*                                                                         *)
(* Sequential code is a function of the interpreter state G (the module    *)
(* global, the memo slot, the heap and the history) to a record            *)
(* [g |-> the state afterwards, val |-> the value returned].               *)
(***************************************************************************)
G == [gc |-> _entry_point_cache, memo |-> memo, heap |-> heap,
      scans |-> scans, snapshot |-> snapshot, held |-> held]

\* all_entry_points[ep.group][ep.name] = ep, on a defaultdict(dict)
AddEntry(all, ep) ==
  LET inner == IF DictHas(all, ep.group) THEN DictGet(all, ep.group) ELSE <<>>
  IN  DictSet(all, ep.group, DictSet(inner, ep.name, ep))

\* the body of _initialize_cache: the loop over entry_points()
RECURSIVE BuildCache(_)
BuildCache(e) ==
  IF e = <<>> THEN <<>>
  ELSE AddEntry(BuildCache(SubSeq(e, 1, Len(e) - 1)), e[Len(e)])

\* one real run of the body: enumerate the environment, allocate the dict
RunInitializer(g) ==
  [g EXCEPT !.heap = Append(@, BuildCache(env)),
            !.scans = @ + 1,
            !.snapshot = IF @ = None THEN Some(env) ELSE @]

\* @cache storing what the body returned (the newest object of the heap)
Memoize(g1) == [g |-> [g1 EXCEPT !.memo = Len(g1.heap)], val |-> Len(g1.heap)]

\* @cache: a hit returns the stored object, a miss runs the body and stores
_initialize_cache(g) ==
  IF g.memo # 0
    THEN [g |-> g, val |-> g.memo]
    ELSE Memoize(RunInitializer(g))

\* _entry_point_cache = _initialize_cache()
AssignGlobal(i) == [i.g EXCEPT !.gc = i.val]

\* return _entry_point_cache
ReturnGlobal(r) == [g |-> [r EXCEPT !.held = @ \cup {r.gc}], val |-> r.gc]

\* a variant that rebuilds the cache on every access
_get_cache_rescan(g) == ReturnGlobal(AssignGlobal(Memoize(RunInitializer(g))))

_get_cache(g) ==
  ReturnGlobal(IF g.gc = 0 THEN AssignGlobal(_initialize_cache(g)) ELSE g)

(***************************************************************************)
(* EntryPointRegistry                                                      *)
(***************************************************************************)
NewRegistry(group) == [group |-> group, _cache |-> None]

\* self._get_cache()[self.group] = {}, on the dict r2 that call returned
InsertGroup(r2, group) ==
  [g |-> [r2.g EXCEPT !.heap[r2.val] = DictSet(@, group, <<>>)], val |-> NewRegistry(group)]

\* a variant that assigns the empty dict whether or not the group is there
EnsureGroup_always(r1, group) == InsertGroup(_get_cache(r1.g), group)

\* a variant that leaves a missing group out
EnsureGroup_never(r1, group) == [g |-> r1.g, val |-> NewRegistry(group)]

\* if self.group not in self._get_cache(): ..., on the dict r1 that call returned
EnsureGroup(r1, group) ==
  IF ~DictHas(r1.g.heap[r1.val], group)
    THEN InsertGroup(_get_cache(r1.g), group)
    ELSE [g |-> r1.g, val |-> NewRegistry(group)]

\* __init__: the registry object and the state after ensuring the group
Registry__init__(g, group) == EnsureGroup(_get_cache(g), group)

\* an exception: its class and its message (the format and what fills it)
KeyError(fmt, name, group) ==
  Some([kind |-> "KeyError", fmt |-> fmt, name |-> name, group |-> group])
ValueError(fmt, name, group) ==
  Some([kind |-> "ValueError", fmt |-> fmt, name |-> name, group |-> group])
\* what dict.__getitem__ raises for a missing key
DictKeyError(key) == KeyError("{!r}", key, <<>>)

\* self._cache = self._get_cache()[self.group], on the dict r that call returned
ResolveSlice(r, self) ==
  IF DictHas(r.g.heap[r.val], self.group)
    THEN [g |-> r.g,
          self |-> [self EXCEPT !._cache = Some(DictGet(r.g.heap[r.val], self.group))],
          val |-> DictGet(r.g.heap[r.val], self.group), exc |-> None]
    ELSE [g |-> r.g, self |-> self, val |-> <<>>, exc |-> DictKeyError(self.group)]

\* the `cache` property: [g, self (after the call), val, exc]
cache(g, self) ==
  IF self._cache = None
    THEN ResolveSlice(_get_cache(g), self)
    ELSE [g |-> g, self |-> self, val |-> self._cache[1], exc |-> None]

\* the methods: [g, self (after the call), ret, exc]; each is its body applied
\* to what self.cache gave (c)
\* a variant that indexes the dict instead of calling dict.get
DictGetOrNone_strict(c, name) ==
  [g |-> c.g, self |-> c.self,
   exc |-> IF c.exc = None /\ ~DictHas(c.val, name) THEN DictKeyError(name) ELSE c.exc,
   ret |-> IF c.exc = None /\ DictHas(c.val, name)
             THEN Some(DictGet(c.val, name)) ELSE None]

DictGetOrNone(c, name) ==
  [g |-> c.g, self |-> c.self, exc |-> c.exc,
   ret |-> IF c.exc = None /\ DictHas(c.val, name)
             THEN Some(DictGet(c.val, name)) ELSE None]

get(g, self, name) == DictGetOrNone(cache(g, self), name)

\* EntryPoint.load(): the object the entry point refers to
EntryPointLoad(ep) == [loaded |-> ep.module, attr |-> ep.attr]

LoadIfFound(r) ==
  [r EXCEPT !.ret = IF r.exc = None /\ r.ret # None
                      THEN Some(EntryPointLoad(r.ret[1])) ELSE None]

load(g, self, name) == LoadIfFound(get(g, self, name))

IndexOrRaise(c, self, name) ==
  IF c.exc = None /\ DictHas(c.val, name)
    THEN [g |-> c.g, self |-> c.self, ret |-> Some(DictGet(c.val, name)), exc |-> None]
    ELSE [g |-> c.g, self |-> c.self, ret |-> None,
          exc |-> KeyError("No entry point named {!r} found in group {!r}",
                           Quote(name), Quote(self.group))]

__getitem__(g, self, name) == IndexOrRaise(cache(g, self), self, name)

ValuesOf(c) ==
  [g |-> c.g, self |-> c.self, exc |-> c.exc,
   ret |-> IF c.exc = None THEN DictValues(c.val) ELSE <<>>]

__iter__(g, self) == ValuesOf(cache(g, self))

LenOfDict(c) ==
  [g |-> c.g, self |-> c.self, exc |-> c.exc,
   ret |-> IF c.exc = None THEN Len(c.val) ELSE 0]

__len__(g, self) == LenOfDict(cache(g, self))

\* a variant that knows names only
ContainsIn_names_only(c, ep) ==
  [g |-> c.g, self |-> c.self, exc |-> c.exc,
   ret |-> c.exc = None /\ ep.isstr /\ DictHas(c.val, ep.val)]

\* the argument is [isstr |-> isinstance(ep, str), val |-> ep]
ContainsIn(c, ep) ==
  [g |-> c.g, self |-> c.self, exc |-> c.exc,
   ret |-> /\ c.exc = None
           /\ IF ep.isstr THEN DictHas(c.val, ep.val)
                          ELSE \E i \in 1..Len(c.val) : c.val[i].v = ep.val]

__contains__(g, self, ep) == ContainsIn(cache(g, self), ep)

KeysOf(c) ==
  [g |-> c.g, self |-> c.self, exc |-> c.exc,
   ret |-> IF c.exc = None THEN DictKeys(c.val) ELSE <<>>]

names(g, self) == KeysOf(cache(g, self))

WholeDict(c) ==
  [g |-> c.g, self |-> c.self, exc |-> c.exc,
   ret |-> IF c.exc = None THEN c.val ELSE <<>>]

get_all(g, self) == WholeDict(cache(g, self))

\* the record get_metadata builds from an entry point
MetadataOf(ep) ==
  [module |-> ep.module, attr |-> ep.attr,
   dist |-> IF ep.dist # None THEN Some(ep.dist[1].name) ELSE None,
   version |-> IF ep.dist # None THEN Some(ep.dist[1].version) ELSE None]

\* the body of get_metadata after ep = self.get(name), r being what get gave
MetadataOrRaise(r, self, name) ==
  IF r.exc # None THEN r
  ELSE IF r.ret = None
    THEN [r EXCEPT !.exc = ValueError("No entry point named '{}' found in group '{}'",
                                      Quote(name), Quote(self.group))]
    ELSE [r EXCEPT !.ret = Some(MetadataOf(r.ret[1]))]

get_metadata(g, self, name) == MetadataOrRaise(get(g, self, name), self, name)

(***************************************************************************)
(* The module-level functions                                              *)
(***************************************************************************)
\* the dict a _get_cache call returned
Deref(r) == r.g.heap[r.val]

\* a variant that lists only the groups that have entries
GroupKeys_nonempty(r) ==
  [g |-> r.g, ret |-> DictKeys(SelectSeq(Deref(r), LAMBDA it : it.v # <<>>))]

GroupKeys(r) == [g |-> r.g, ret |-> DictKeys(Deref(r))]

available_groups(g) == GroupKeys(_get_cache(g))

\* fnmatch.fnmatchcase for patterns of literals, * and ?
RECURSIVE fnmatch(_, _)
fnmatch(text, pat) ==
  IF pat = <<>> THEN text = <<>>
  ELSE IF pat[1] = "*"
    THEN \/ fnmatch(text, Tail(pat))
         \/ text # <<>> /\ fnmatch(Tail(text), pat)
  ELSE /\ text # <<>>
       /\ pat[1] = "?" \/ pat[1] = text[1]
       /\ fnmatch(Tail(text), Tail(pat))

match_pattern(text, pattern) == fnmatch(lower(text), lower(pattern))

\* the truth value of an Optional[str]: None and "" are false
Truthy(opt) == opt # None /\ opt[1] # <<>>

\* a variant whose distribution filter lets entries without a distribution through
FilterKeeps_no_dist_passes(item, distribution, name_pattern) ==
  /\ ~(Truthy(distribution) /\ item.v.dist # None /\
        ~match_pattern(item.v.dist[1].name, distribution[1]))
  /\ ~(Truthy(name_pattern) /\ ~match_pattern(item.k, name_pattern[1]))

\* the inner loop of filter_entry_points: which (name, ep) items are kept
FilterKeeps(item, distribution, name_pattern) ==
  /\ ~(Truthy(distribution) /\
        ~(item.v.dist # None /\ match_pattern(item.v.dist[1].name, distribution[1])))
  /\ ~(Truthy(name_pattern) /\ ~match_pattern(item.k, name_pattern[1]))

\* the outer loop: groups in cache order, each with its kept items, if any
RECURSIVE FilterGroups(_, _, _, _)
FilterGroups(c, group, distribution, name_pattern) ==
  IF c = <<>> THEN <<>>
  ELSE LET rest == FilterGroups(Tail(c), group, distribution, name_pattern)
           filtered_eps ==
             SelectSeq(c[1].v, LAMBDA it : FilterKeeps(it, distribution, name_pattern))
       IN  IF Truthy(group) /\ ~match_pattern(c[1].k, group[1]) THEN rest
           ELSE IF filtered_eps # <<>>
             THEN <<[k |-> c[1].k, v |-> filtered_eps]>> \o rest
             ELSE rest

FilterCache(r, group, distribution, name_pattern) ==
  [g |-> r.g, ret |-> FilterGroups(Deref(r), group, distribution, name_pattern)]

filter_entry_points(g, group, distribution, name_pattern) ==
  FilterCache(_get_cache(g), group, distribution, name_pattern)

\* the inner loop of search_entry_points
SearchKeeps(item, query, group_matches, include_names, include_distributions) ==
  LET matches ==
        \/ include_names /\ StrIn(query, lower(item.k))
        \/ /\ include_distributions
           /\ item.v.dist # None
           /\ StrIn(query, lower(item.v.dist[1].name))
  IN  matches \/ group_matches

RECURSIVE SearchGroups(_, _, _, _, _)
SearchGroups(c, query, include_groups, include_names, include_distributions) ==
  IF c = <<>> THEN <<>>
  ELSE LET rest == SearchGroups(Tail(c), query, include_groups, include_names,
                                include_distributions)
           group_matches == include_groups /\ StrIn(query, lower(c[1].k))
           matching_eps ==
             SelectSeq(c[1].v, LAMBDA it : SearchKeeps(it, query, group_matches,
                                                      include_names, include_distributions))
       IN  IF matching_eps # <<>>
             THEN <<[k |-> c[1].k, v |-> matching_eps]>> \o rest
             ELSE rest

\* a variant that does not lower-case the query
SearchCache_query_as_given(r, query, include_groups, include_names, include_distributions) ==
  [g |-> r.g,
   ret |-> SearchGroups(Deref(r), query, include_groups, include_names,
                        include_distributions)]

SearchCache(r, query, include_groups, include_names, include_distributions) ==
  [g |-> r.g,
   ret |-> SearchGroups(Deref(r), lower(query), include_groups, include_names,
                        include_distributions)]

search_entry_points(g, query, include_groups, include_names, include_distributions) ==
  SearchCache(_get_cache(g), query, include_groups, include_names, include_distributions)

DistributionNames(r) ==
  [g |-> r.g,
   ret |-> {e.ep.dist[1].name : e \in {x \in Entries(Deref(r)) : x.ep.dist # None}}]

list_distributions(g) == DistributionNames(_get_cache(g))

(***************************************************************************)
(* Single-threaded execution: every call runs to completion                *)
(***************************************************************************)
Idle == [t \in Threads |-> "off"]
NoFrame ==
  [t \in Threads |-> [self |-> None, back |-> "", new |-> 0, ref |-> 0, raised |-> None]]

\* the module right after import, in some host environment
Init ==
  /\ env \in Envs
  /\ _entry_point_cache = 0
  /\ memo = 0
  /\ heap = <<>>
  /\ registries = {}
  /\ result = None
  /\ scans = 0
  /\ snapshot = None
  /\ held = {}
  /\ pc = Idle
  /\ loc = NoFrame

Commit(g) ==
  /\ _entry_point_cache' = g.gc
  /\ memo' = g.memo
  /\ heap' = g.heap
  /\ scans' = g.scans
  /\ snapshot' = g.snapshot
  /\ held' = g.held

\* the caller may call when it has taken the previous call's value
CanCall == result = None /\ pc = Idle

\* the host environment changes between calls: a distribution is installed
Install(ep) ==
  /\ CanCall
  /\ Len(env) < MaxEnv
  /\ ep \notin Range(env)
  /\ env' = Append(env, ep)
  /\ UNCHANGED <<_entry_point_cache, memo, heap, registries, result, scans, snapshot, held, pc, loc>>

\* ... or removed
Uninstall(i) ==
  /\ CanCall
  /\ i \in 1..Len(env)
  /\ env' = SubSeq(env, 1, i - 1) \o SubSeq(env, i + 1, Len(env))
  /\ UNCHANGED <<_entry_point_cache, memo, heap, registries, result, scans, snapshot, held, pc, loc>>

\* EntryPointRegistry(group).  Registry objects with equal fields behave alike,
\* so the objects are kept as a set.
Constructed(r) ==
  /\ CanCall
  /\ Cardinality(registries \cup {r.val}) <= MaxRegistries
  /\ Commit(r.g)
  /\ registries' = registries \cup {r.val}
  /\ UNCHANGED <<env, result, pc, loc>>

Construct(group) == Constructed(Registry__init__(G, group))

\* a method call on a registry hands back r.ret or raises r.exc
RegCall(op, self, arg, r) ==
  /\ CanCall
  /\ Commit(r.g)
  /\ registries' = (registries \ {self}) \cup {r.self}
  /\ result' = Some([op |-> op, group |-> self.group, arg |-> arg, ret |-> r.ret, exc |-> r.exc])
  /\ UNCHANGED <<env, pc, loc>>

\* a module-level function call hands back r.ret
FunCall(op, arg, r) ==
  /\ CanCall
  /\ Commit(r.g)
  /\ result' = Some([op |-> op, group |-> <<>>, arg |-> arg, ret |-> r.ret, exc |-> None])
  /\ UNCHANGED <<env, registries, pc, loc>>

Get == \E self \in registries, n \in NameInputs : RegCall("get", self, n, get(G, self, n))
Load == \E self \in registries, n \in NameInputs : RegCall("load", self, n, load(G, self, n))
GetItem == \E self \in registries, n \in NameInputs : RegCall("getitem", self, n, __getitem__(G, self, n))
GetMetadata == \E self \in registries, n \in NameInputs : RegCall("get_metadata", self, n, get_metadata(G, self, n))
\* `name in registry` and `entry_point in registry`
StrArg(n) == [isstr |-> TRUE, val |-> n]
EpArg(e) == [isstr |-> FALSE, val |-> e]
Contains ==
  \/ \E self \in registries, n \in NameInputs :
        RegCall("contains", self, StrArg(n), __contains__(G, self, StrArg(n)))
  \/ \E self \in registries, e \in EPUniverse :
        RegCall("contains", self, EpArg(e), __contains__(G, self, EpArg(e)))
Iter == \E self \in registries : RegCall("iter", self, <<>>, __iter__(G, self))
LenOf == \E self \in registries : RegCall("len", self, <<>>, __len__(G, self))
Names == \E self \in registries : RegCall("names", self, <<>>, names(G, self))
GetAll == \E self \in registries : RegCall("get_all", self, <<>>, get_all(G, self))

AvailableGroups == FunCall("available_groups", <<>>, available_groups(G))
ListDistributions == FunCall("list_distributions", <<>>, list_distributions(G))
Filter ==
  \E gp, dp, np \in PatternInputs :
     FunCall("filter", [group |-> gp, distribution |-> dp, name_pattern |-> np],
             filter_entry_points(G, gp, dp, np))
Search ==
  \E q \in QueryInputs, ig, in, id \in BOOLEAN :
     FunCall("search", [query |-> q, include_groups |-> ig, include_names |-> in,
                        include_distributions |-> id],
             search_entry_points(G, q, ig, in, id))

\* the caller takes the value handed back
Return ==
  /\ result # None
  /\ result' = None
  /\ UNCHANGED <<env, _entry_point_cache, memo, heap, registries, scans, snapshot, held, pc, loc>>

Next ==
  \/ \E ep \in EPUniverse : Install(ep)
  \/ \E i \in 1..MaxEnv + 1 : Uninstall(i)
  \/ \E group \in GroupInputs : Construct(group)
  \/ Get
  \/ Load
  \/ GetItem
  \/ GetMetadata
  \/ Contains
  \/ Iter
  \/ LenOf
  \/ Names
  \/ GetAll
  \/ AvailableGroups
  \/ ListDistributions
  \/ Filter
  \/ Search
  \/ Return

Spec == Init /\ [][Next]_vars

(***************************************************************************)
(* Several threads: a thread may be preempted between statements           *)
(*                                                                         *)
(* Each thread makes its first access to the cache, either by              *)
(* EntryPointRegistry(group) followed by a read of the registry's `cache`  *)
(* property, or by available_groups().  loc[t] is the thread's frame:      *)
(* self (the registry under construction), back (where _get_cache returns  *)
(* to), new (what _initialize_cache returned), ref (what _get_cache        *)
(* returned) and raised (the exception that ended the thread, if any).     *)
(***************************************************************************)
InitMT ==
  /\ env \in Envs
  /\ _entry_point_cache = 0
  /\ memo = 0
  /\ heap = <<>>
  /\ registries = {}
  /\ result = None
  /\ scans = 0
  /\ snapshot = None
  /\ held = {}
  /\ pc = [t \in Threads |-> "ready"]
  /\ loc = NoFrame

Goto(t, label) == pc' = [pc EXCEPT ![t] = label]

\* lines 52-56: the fields are set, then self._get_cache() is called
BeginConstruct(t, group) ==
  /\ pc[t] = "ready"
  /\ loc' = [loc EXCEPT ![t].self = Some(NewRegistry(group)), ![t].back = "init_test"]
  /\ Goto(t, "gc_test")
  /\ UNCHANGED <<env, _entry_point_cache, memo, heap, registries, result, scans, snapshot, held>>

\* line 204: available_groups() calls _get_cache()
BeginQuery(t) ==
  /\ pc[t] = "ready"
  /\ loc' = [loc EXCEPT ![t].back = "groups"]
  /\ Goto(t, "gc_test")
  /\ UNCHANGED <<env, _entry_point_cache, memo, heap, registries, result, scans, snapshot, held>>

\* line 78: if _entry_point_cache is None
GcTest(t) ==
  /\ pc[t] = "gc_test"
  /\ Goto(t, IF _entry_point_cache = 0 THEN "ic_lookup" ELSE "gc_return")
  /\ UNCHANGED <<env, _entry_point_cache, memo, heap, registries, result, scans, snapshot, held, loc>>

\* line 19: the @cache wrapper looks the call up; a hit returns the stored object
IcLookup(t) ==
  /\ pc[t] = "ic_lookup"
  /\ IF memo # 0
       THEN loc' = [loc EXCEPT ![t].new = memo] /\ Goto(t, "gc_assign")
       ELSE loc' = loc /\ Goto(t, "ic_body")
  /\ UNCHANGED <<env, _entry_point_cache, memo, heap, registries, result, scans, snapshot, held>>

\* lines 27-30 after a miss: the body runs, and the wrapper stores what it returned
IcBody(t) ==
  /\ pc[t] = "ic_body"
  /\ heap' = Append(heap, BuildCache(env))
  /\ scans' = scans + 1
  /\ snapshot' = IF snapshot = None THEN Some(env) ELSE snapshot
  /\ memo' = Len(heap) + 1
  /\ loc' = [loc EXCEPT ![t].new = Len(heap) + 1]
  /\ Goto(t, "gc_assign")
  /\ UNCHANGED <<env, _entry_point_cache, registries, result, held>>

\* line 79: _entry_point_cache = <what _initialize_cache() returned>
GcAssign(t) ==
  /\ pc[t] = "gc_assign"
  /\ _entry_point_cache' = loc[t].new
  /\ Goto(t, "gc_return")
  /\ UNCHANGED <<env, memo, heap, registries, result, scans, snapshot, held, loc>>

\* line 80: return _entry_point_cache (the global is read again)
GcReturn(t) ==
  /\ pc[t] = "gc_return"
  /\ loc' = [loc EXCEPT ![t].ref = _entry_point_cache]
  /\ held' = held \cup {_entry_point_cache}
  /\ Goto(t, loc[t].back)
  /\ UNCHANGED <<env, _entry_point_cache, memo, heap, registries, result, scans, snapshot>>

\* line 56: if self.group not in <the dict returned>; line 57 calls _get_cache() again
InitTest(t) ==
  /\ pc[t] = "init_test"
  /\ IF ~DictHas(heap[loc[t].ref], loc[t].self[1].group)
       THEN loc' = [loc EXCEPT ![t].back = "init_insert"] /\ Goto(t, "gc_test")
       ELSE loc' = loc /\ Goto(t, "built")
  /\ UNCHANGED <<env, _entry_point_cache, memo, heap, registries, result, scans, snapshot, held>>

\* line 57: <the dict returned>[self.group] = {}
InitInsert(t) ==
  /\ pc[t] = "init_insert"
  /\ heap' = [heap EXCEPT ![loc[t].ref] = DictSet(@, loc[t].self[1].group, <<>>)]
  /\ Goto(t, "built")
  /\ UNCHANGED <<env, _entry_point_cache, memo, registries, result, scans, snapshot, held, loc>>

\* the constructor has returned; the thread reads registry.cache (line 66)
Built(t) ==
  /\ pc[t] = "built"
  /\ registries' = registries \cup {loc[t].self[1]}
  /\ loc' = [loc EXCEPT ![t].back = "slice"]
  /\ Goto(t, "gc_test")
  /\ UNCHANGED <<env, _entry_point_cache, memo, heap, result, scans, snapshot, held>>

\* line 67: self._cache = <the dict returned>[self.group]
Slice(t) ==
  /\ pc[t] = "slice"
  /\ IF DictHas(heap[loc[t].ref], loc[t].self[1].group)
       THEN /\ loc' = [loc EXCEPT ![t].self =
                         Some([@[1] EXCEPT !._cache =
                                 Some(DictGet(heap[loc[t].ref], loc[t].self[1].group))])]
            /\ registries' = (registries \ {loc[t].self[1]}) \cup {loc'[t].self[1]}
       ELSE /\ loc' = [loc EXCEPT ![t].raised = DictKeyError(loc[t].self[1].group)]
            /\ registries' = registries
  /\ Goto(t, "done")
  /\ UNCHANGED <<env, _entry_point_cache, memo, heap, result, scans, snapshot, held>>

\* line 204: list(<the dict returned>.keys())
Groups(t) ==
  /\ pc[t] = "groups"
  /\ Goto(t, "done")
  /\ UNCHANGED <<env, _entry_point_cache, memo, heap, registries, result, scans, snapshot, held, loc>>

NextMT ==
  \E t \in Threads :
    \/ \E group \in GroupInputs : BeginConstruct(t, group)
    \/ BeginQuery(t)
    \/ GcTest(t)
    \/ IcLookup(t)
    \/ IcBody(t)
    \/ GcAssign(t)
    \/ GcReturn(t)
    \/ InitTest(t)
    \/ InitInsert(t)
    \/ Built(t)
    \/ Slice(t)
    \/ Groups(t)

SpecMT == InitMT /\ [][NextMT]_vars

(***************************************************************************)
(* Properties                                                              *)
(***************************************************************************)
Pending == result # None
Res == result[1]
Initialized == _entry_point_cache # 0
TheCache == heap[_entry_point_cache]
Holds(group, name) == DictHas(TheCache, group) /\ DictHas(DictGet(TheCache, group), name)
SetOf(seq) == {seq[i] : i \in 1..Len(seq)}

\* the (group, name, entry point) triples a pending result hands to the caller
ReturnedEntries ==
  IF ~Pending THEN {}
  ELSE IF Res.op \in {"get", "getitem"}
    THEN {[group |-> Res.group, name |-> Res.arg, ep |-> Res.ret[i]] : i \in 1..Len(Res.ret)}
  ELSE IF Res.op = "iter"
    THEN {[group |-> Res.group, name |-> Res.ret[i].name, ep |-> Res.ret[i]] : i \in 1..Len(Res.ret)}
  ELSE IF Res.op = "get_all"
    THEN {[group |-> Res.group, name |-> Res.ret[i].k, ep |-> Res.ret[i].v] : i \in 1..Len(Res.ret)}
  ELSE IF Res.op \in {"filter", "search"} THEN Entries(Res.ret)
  ELSE {}

\* C1: the environment is enumerated at most once, every _get_cache call has
\* returned the same dict object (the one the memo and the global name), and
\* every entry a query hands back is an entry point of the environment as it
\* was at the first access, under its own group and name.
C1_BuiltOnce ==
  /\ scans <= 1
  /\ Cardinality(held) <= 1
  /\ Initialized => held = {_entry_point_cache} /\ memo = _entry_point_cache /\ scans = 1
  /\ \A e \in ReturnedEntries :
       /\ e.ep \in SetOf(snapshot[1])
       /\ e.ep.group = e.group
       /\ e.ep.name = e.name

\* the environment has changed since the snapshot and a query still answers from it
C1_Witness ==
  /\ Pending
  /\ Res.op = "filter"
  /\ ReturnedEntries # {}
  /\ registries # {}
  /\ SetOf(env) \cap SetOf(snapshot[1]) = {}
  /\ env # <<>>

\* C2: for a group G and a name N the cache holds, Registry(G)[N] returns an
\* entry point of group G and name N without raising, `N in Registry(G)` is
\* true, and `Registry(G)[N] in Registry(G)` is true.
C2_PresentLookup ==
  Pending =>
    /\ (Res.op = "getitem" /\ Holds(Res.group, Res.arg)) =>
         /\ Res.exc = None
         /\ Res.ret # None
         /\ Res.ret[1].group = Res.group
         /\ Res.ret[1].name = Res.arg
    /\ (Res.op = "contains" /\ Res.arg.isstr /\ Holds(Res.group, Res.arg.val)) =>
         Res.ret = TRUE
    /\ (/\ Res.op = "contains"
        /\ ~Res.arg.isstr
        /\ Holds(Res.group, Res.arg.val.name)
        /\ Res.arg.val = DictGet(DictGet(TheCache, Res.group), Res.arg.val.name)) =>
         Res.ret = TRUE

\* an entry point taken from a registry has been found to be in that registry
C2_Witness ==
  /\ Pending
  /\ Res.op = "contains"
  /\ ~Res.arg.isstr
  /\ Res.ret = TRUE
  /\ Holds(Res.group, Res.arg.val.name)

\* the name is not in the slice of the group
Absent(group, name) == DictHas(TheCache, group) /\ ~DictHas(DictGet(TheCache, group), name)

C3_State ==
  (Pending /\ Res.op \in {"get", "load", "getitem"} /\ Absent(Res.group, Res.arg)) =>
    /\ Res.ret = None
    /\ Res.op \in {"get", "load"} => Res.exc = None
    /\ Res.op = "getitem" =>
         /\ Res.exc # None
         /\ Res.exc[1].kind = "KeyError"
         /\ Res.exc[1].name = Quote(Res.arg)
         /\ Res.exc[1].group = Quote(Res.group)

C3_Frame ==
  (/\ result = None
   /\ result' # None
   /\ result'[1].op \in {"get", "load", "getitem"}
   /\ Initialized
   /\ Absent(result'[1].group, result'[1].arg)) =>
      /\ _entry_point_cache' = _entry_point_cache
      /\ heap' = heap

\* C3: for a name absent from the group's slice, get and load return None and
\* do not raise, indexing raises a KeyError whose message carries the name and
\* the group, and none of the three calls changes the cache.
C3_AbsentName == [](C3_State) /\ [][C3_Frame]_vars

\* indexing an absent name has raised
C3_Witness ==
  /\ Pending
  /\ Res.op = "getitem"
  /\ Absent(Res.group, Res.arg)
  /\ Res.exc # None

\* the class of the exception registry indexing raises for a name of a group
IndexingErrorKind(group, name) == __getitem__(G, NewRegistry(group), name).exc[1].kind

\* C4: get_metadata for an absent name raises an error of the same class as
\* registry indexing raises, carrying the name and the group; for a present
\* name it returns (module, attr, distribution name, distribution version),
\* the last two None when the entry point has no distribution.
C4_MetadataLookup ==
  (Pending /\ Res.op = "get_metadata") =>
    /\ Absent(Res.group, Res.arg) =>
         /\ Res.exc # None
         /\ Res.exc[1].name = Quote(Res.arg)
         /\ Res.exc[1].group = Quote(Res.group)
         /\ Res.exc[1].kind = IndexingErrorKind(Res.group, Res.arg)
    /\ Holds(Res.group, Res.arg) =>
         /\ Res.exc = None
         /\ Res.ret # None
         /\ Res.ret[1].module = DictGet(DictGet(TheCache, Res.group), Res.arg).module
         /\ Res.ret[1].attr = DictGet(DictGet(TheCache, Res.group), Res.arg).attr
         /\ DictGet(DictGet(TheCache, Res.group), Res.arg).dist = None =>
              Res.ret[1].dist = None /\ Res.ret[1].version = None

(***************************************************************************)
(* What the patterns and queries mean, stated apart from the code          *)
(***************************************************************************)
SameLetter(a, b) == LowerChar(a) = LowerChar(b)

\* text matches the glob, letter case ignored; * is any run, ? any one character
RECURSIVE GlobCI(_, _)
GlobCI(text, pat) ==
  IF pat = <<>> THEN text = <<>>
  ELSE LET last == pat[Len(pat)]
           front == SubSeq(pat, 1, Len(pat) - 1)
       IN  IF last = "*"
             THEN \E n \in 0..Len(text) : GlobCI(SubSeq(text, 1, n), front)
             ELSE /\ text # <<>>
                  /\ last = "?" \/ SameLetter(last, text[Len(text)])
                  /\ GlobCI(SubSeq(text, 1, Len(text) - 1), front)

\* text contains the query, letter case ignored
ContainsCI(text, query) ==
  \E off \in 0..Len(text) :
     /\ off + Len(query) <= Len(text)
     /\ \A i \in 1..Len(query) : SameLetter(text[off + i], query[i])

NoEmptyGroup(d) == \A i \in 1..Len(d) : d[i].v # <<>>
DistinctKeys(d) == \A i, j \in 1..Len(d) : d[i].k = d[j].k => i = j
WellFormed(d) ==
  /\ NoEmptyGroup(d)
  /\ DistinctKeys(d)
  /\ \A i \in 1..Len(d) : DistinctKeys(d[i].v)

\* a filter that is given (not None) passes what matches it
PassesGiven(filter, text) == filter = None \/ GlobCI(text, filter[1])
\* a filter that is None or the empty string passes everything
PassesNonEmpty(filter, text) == filter = None \/ filter[1] = <<>> \/ GlobCI(text, filter[1])

\* the same, for the distribution filter: an entry without one never matches
DistPassesGiven(filter, ep) ==
  filter = None \/ (ep.dist # None /\ GlobCI(ep.dist[1].name, filter[1]))
DistPassesNonEmpty(filter, ep) ==
  filter = None \/ filter[1] = <<>> \/ (ep.dist # None /\ GlobCI(ep.dist[1].name, filter[1]))

\* C5 as claimed: the result of filter_entry_points is exactly the cache entries
\* that every given (non-None) filter matches, and none of its groups is empty.
C5_AsClaimed ==
  (Pending /\ Res.op = "filter") =>
    /\ WellFormed(Res.ret)
    /\ Entries(Res.ret) =
         {e \in Entries(TheCache) :
            /\ PassesGiven(Res.arg.group, e.group)
            /\ DistPassesGiven(Res.arg.distribution, e.ep)
            /\ PassesGiven(Res.arg.name_pattern, e.name)}

\* C5: the result of filter_entry_points is exactly the cache entries that
\* every filter passes, where a filter that is None or the empty string passes
\* everything, any other group or name filter passes what matches it as a
\* case-insensitive glob, and any other distribution filter passes the entries
\* that have a distribution whose name matches; a group is in the result if
\* and only if one of its entries is, so no group of the result is empty.
C5_FilterExact ==
  (Pending /\ Res.op = "filter") =>
    /\ WellFormed(Res.ret)
    /\ Entries(Res.ret) =
         {e \in Entries(TheCache) :
            /\ PassesNonEmpty(Res.arg.group, e.group)
            /\ DistPassesNonEmpty(Res.arg.distribution, e.ep)
            /\ PassesNonEmpty(Res.arg.name_pattern, e.name)}

\* a distribution filter has kept some entries and dropped others, and the
\* cache holds an empty group that a registry construction made
C5_Witness ==
  /\ Pending
  /\ Res.op = "filter"
  /\ Truthy(Res.arg.distribution)
  /\ Res.ret # <<>>
  /\ Entries(Res.ret) # Entries(TheCache)
  /\ ~NoEmptyGroup(TheCache)

\* C6: the result of search_entry_points is exactly the cache entries whose
\* name contains the query (names searched), or whose distribution exists and
\* has a name containing the query (distributions searched), or whose group
\* name contains the query (groups searched), letter case ignored; no group of
\* the result is empty.
C6_SearchExact ==
  (Pending /\ Res.op = "search") =>
    /\ WellFormed(Res.ret)
    /\ Entries(Res.ret) =
         {e \in Entries(TheCache) :
            \/ Res.arg.include_names /\ ContainsCI(e.name, Res.arg.query)
            \/ /\ Res.arg.include_distributions
               /\ e.ep.dist # None
               /\ ContainsCI(e.ep.dist[1].name, Res.arg.query)
            \/ Res.arg.include_groups /\ ContainsCI(e.group, Res.arg.query)}

\* only names were searched: an entry was found by name, and an entry whose
\* distribution name (but not its name) contains the query was left out
C6_Witness ==
  /\ Pending
  /\ Res.op = "search"
  /\ Res.arg.include_names /\ ~Res.arg.include_groups /\ ~Res.arg.include_distributions
  /\ Res.ret # <<>>
  /\ \E e \in Entries(TheCache) \ Entries(Res.ret) :
        e.ep.dist # None /\ ContainsCI(e.ep.dist[1].name, Res.arg.query)

\* C7 as claimed: once the cache is initialized, no call (registry construction
\* included) adds, removes or replaces a group or an entry of it.
C7_AsClaimed ==
  [][Initialized => (_entry_point_cache' = _entry_point_cache /\ heap' = heap)]_vars

\* what a registry construction for `group` may do to the cache: append the
\* missing group with an empty mapping, every other group and entry kept
AddsEmptyGroup(group) ==
  /\ ~DictHas(TheCache, group)
  /\ heap' = [heap EXCEPT ![_entry_point_cache] = Append(@, [k |-> group, v |-> <<>>])]
  /\ NewRegistry(group) \in registries'
  /\ result' = result

\* C7: once the cache is initialized it is always the same dict object, and
\* no call removes or replaces a group or an entry of it or adds an entry; the
\* only change made in place is that constructing a registry for a group the
\* cache lacks appends that group with an empty mapping.  The query functions
\* and the registry's accessors leave the cache as it is.
C7_OnlyEmptyGroupsAdded ==
  [][Initialized =>
       /\ _entry_point_cache' = _entry_point_cache
       /\ heap' = heap \/ \E group \in GroupInputs : AddsEmptyGroup(group)]_vars

\* a construction has added an empty group to the initialized cache, and a
\* query has run on it since
C7_Witness ==
  /\ Initialized
  /\ Pending
  /\ Res.op \in {"filter", "search", "list_distributions", "get_all"}
  /\ ~NoEmptyGroup(TheCache)
  /\ \E i \in 1..Len(TheCache) : TheCache[i].v # <<>>

SnapshotGroups == {snapshot[1][i].group : i \in 1..Len(snapshot[1])}
ConstructedGroups == {r.group : r \in registries}
HasNoEntries(group) == \A e \in Entries(TheCache) : e.group # group

\* C8: the groups of the cache are always exactly the groups of the first
\* environment snapshot together with the groups registries were constructed
\* for (so no query adds one), available_groups() returns exactly these, each
\* once, and a group without entries is among them if and only if a registry
\* was constructed for it.
C8_AvailableGroups ==
  Initialized =>
    /\ SetOf(DictKeys(TheCache)) = SnapshotGroups \cup ConstructedGroups
    /\ (Pending /\ Res.op = "available_groups") =>
         /\ SetOf(Res.ret) = SnapshotGroups \cup ConstructedGroups
         /\ \A i, j \in 1..Len(Res.ret) : Res.ret[i] = Res.ret[j] => i = j
         /\ \A group \in GroupInputs :
              HasNoEntries(group) => (group \in SetOf(Res.ret) <=> group \in ConstructedGroups)

\* available_groups() has listed a group without entries beside one with
\* entries, after queries that did not construct anything else
C8_Witness ==
  /\ Pending
  /\ Res.op = "available_groups"
  /\ \E group \in SetOf(Res.ret) : HasNoEntries(group)
  /\ \E group \in SetOf(Res.ret) : ~HasNoEntries(group)
  /\ \E group \in GroupInputs : group \notin SetOf(Res.ret)

\* C10: in single-threaded execution the group of every constructed registry
\* is a key of the global cache, a resolved slice is the cache's mapping for
\* that group, no accessor fails for a missing group, and on a group without
\* entries names() and iteration are empty, len is 0 and get returns None.
C10_RegistrySlice ==
  /\ \A r \in registries :
       /\ Initialized
       /\ DictHas(TheCache, r.group)
       /\ r._cache # None => r._cache[1] = DictGet(TheCache, r.group)
  /\ (Pending /\ Res.group # <<>>) =>
       /\ Res.exc # None => Res.exc[1].fmt # "{!r}"
       /\ \E r \in registries : r.group = Res.group /\ r._cache # None
       /\ HasNoEntries(Res.group) =>
            /\ Res.op \in {"names", "iter", "get_all"} => Res.ret = <<>>
            /\ Res.op = "len" => Res.ret = 0
            /\ Res.op = "get" => Res.ret = None /\ Res.exc = None

\* len() of a registry of a group that is not in the environment has returned 0
C10_Witness ==
  /\ Pending
  /\ Res.op = "len"
  /\ Res.ret = 0
  /\ Res.group \notin SnapshotGroups
  /\ \E r \in registries : r.group = Res.group /\ r._cache = Some(<<>>)

\* C9: with several threads making their first access at once, the
\* environment is enumerated at most once, all threads get the same cache
\* object, and the group a registry construction inserted is in the cache the
\* registry's accessors then read (its slice resolves, no thread ends with an
\* exception).
C9_OneTimeInit ==
  /\ scans <= 1
  /\ Cardinality(held \ {0}) <= 1
  /\ \A t \in Threads : loc[t].raised = None
  /\ \A t \in Threads :
       (pc[t] = "done" /\ loc[t].self # None) =>
          /\ DictHas(TheCache, loc[t].self[1].group)
          /\ loc[t].self[1]._cache = Some(DictGet(TheCache, loc[t].self[1].group))

====
